---- MODULE Spec2Model ----
(***************************************************************************)
(* rips: zero-copy packet views (packets/, rips-packets/) and the Ethernet *)
(* frame dispatcher generated by ethernet_rx! (core/src/ethernet/rx.rs).   *)
(*                                                                         *)
(* A byte is an integer in 0..255, a buffer (&[u8]) a sequence of bytes.   *)
(* Rust's 0-based index i is position i+1 of the sequence.                 *)
(***************************************************************************)
EXTENDS Integers, Sequences, FiniteSets, TLC

VARIABLES
    host,       \* byte order of the machine the code runs on: "little" | "big"
    \* ---- the dispatcher generated by ethernet_rx! ----
    built,      \* TRUE once $struct_name::new has returned
    mac,        \* field mac of the dispatcher
    routes,     \* the macro's repetition: <<[ether_type, listener_name, error_name]>>
    frame,      \* argument data of the latest recv call
    result,     \* what the latest recv call returned
    invoked,    \* the listener calls the latest recv call made, in order
    erred,      \* history: TRUE once a recv call before the latest returned Err
    \* ---- one buffer and the packet view over it ----
    kind,       \* the packet type: "ethernet" | "arp" | "ipv4" | "ipv6"
    buf,        \* the backing bytes
    view,       \* the live view of buf: "none" | "immutable" | "mutable"
    prev,       \* the backing bytes before the latest setter call
    call,       \* the latest call on the buffer or view: [op, field, arg, ret]
    nsets,      \* number of setter calls made on the view
    trusted,    \* TRUE when the live view was made by new_unchecked
    after,      \* the bytes of memory that follow the backing bytes
    touched,    \* the byte indices (0-based) the latest getter or setter accessed
    reader,     \* the immutable view as_immutable returned, while it is live
    written,    \* the fields set on the view so far, each with the value set last
    orig,       \* the backing bytes when the buffer was allocated
    \* ---- threads that share one dispatcher ----
    threads,    \* per thread: [pc, frame, result, invoked]
    holder      \* the thread that holds the &mut borrow of the dispatcher, 0 if none

rxvars  == <<built, mac, routes, frame, result, invoked, erred>>
memvars == <<trusted, after, touched, reader, written, orig>>
thrvars == <<threads, holder>>
pktvars == <<kind, buf, view, prev, call, nsets, trusted, after, touched, reader, written,
            orig>>
vars    == <<host, built, mac, routes, frame, result, invoked, erred,
             kind, buf, view, prev, call, nsets, trusted, after, touched, reader, written,
             orig, threads, holder>>

(***************************************************************************)
(* Bounds of the model.                                                    *)
(***************************************************************************)
MaxRoutes  == 2     \* routes per macro invocation
MaxPayload == 1     \* payload bytes after a header
MaxSets    == 1     \* setter calls on one view
MaxSlice   == 7     \* bytes of a slice given to MacAddr::from_slice
MaxThreads == 2     \* threads that call recv on one dispatcher
MaxSeq     == 2     \* setter calls of one recorded sequence

Hosts == {"little", "big"}

(***************************************************************************)
(* Integer arithmetic of u8 / u16: & | << >>.                              *)
(***************************************************************************)
RECURSIVE BitAnd(_, _)
BitAnd(a, b) ==
    IF a = 0 \/ b = 0 THEN 0
    ELSE (a % 2) * (b % 2) + 2 * BitAnd(a \div 2, b \div 2)

RECURSIVE BitOr(_, _)
BitOr(a, b) ==
    IF a = 0 THEN b
    ELSE IF b = 0 THEN a
    ELSE (IF a % 2 = 1 \/ b % 2 = 1 THEN 1 ELSE 0) + 2 * BitOr(a \div 2, b \div 2)

\* x << n on a w-bit unsigned integer: the bits shifted out are lost
Shl(x, n, w) == (x * (2 ^ n)) % (2 ^ w)
\* x >> n
Shr(x, n) == x \div (2 ^ n)

(***************************************************************************)
(* Byte order.  A u16 read through a pointer takes the two bytes in the    *)
(* machine's order; from_be / to_be swap on a little-endian machine only.  *)
(***************************************************************************)
swap_bytes(x) == (x % 256) * 256 + (x \div 256)
from_be(x) == IF host = "little" THEN swap_bytes(x) ELSE x
\* as to_be, swapping on every machine
to_be_always(x) == swap_bytes(x)
to_be(x)   == IF host = "little" THEN swap_bytes(x) ELSE x
\* the u16 that the bytes b0, b1 (ascending addresses) are in memory
u16_from_memory(b0, b1) == IF host = "little" THEN b0 + 256 * b1 ELSE 256 * b0 + b1
\* the bytes (ascending addresses) that the u16 x is in memory
u16_to_memory(x) == IF host = "little" THEN <<x % 256, x \div 256>> ELSE <<x \div 256, x % 256>>

(***************************************************************************)
(* read_offset! / write_offset! (macros.rs).  offset is Rust's 0-based     *)
(* index.  The macros index buff[offset] and then access size_of::<type>   *)
(* bytes through the raw pointer.  The operators here take a buff that     *)
(* holds every byte the access reaches: the backing bytes of a view from   *)
(* the checked new(), or the backing bytes followed by the memory after    *)
(* them (view_get, view_set below).  The u16 accesses are at even offsets  *)
(* and are taken to behave as an unaligned load or store.                  *)
(***************************************************************************)
read_offset_u8(buff, offset) == buff[offset + 1]
read_offset_u16(buff, offset) == u16_from_memory(buff[offset + 1], buff[offset + 2])
read_offset_u16_from_be(buff, offset) == from_be(read_offset_u16(buff, offset))
read_offset_array(buff, offset, n) == SubSeq(buff, offset + 1, offset + n)

\* the buffer with the bytes bs stored from index offset on
store(buff, offset, bs) ==
    [i \in 1..Len(buff) |->
        IF i > offset /\ i <= offset + Len(bs) THEN bs[i - offset] ELSE buff[i]]
write_offset_u8(buff, offset, value) == store(buff, offset, <<value>>)
write_offset_u16(buff, offset, value) == store(buff, offset, u16_to_memory(value))
\* as write_offset!(.., to_be), without the to_be conversion
write_offset_u16_native(buff, offset, value) == write_offset_u16(buff, offset, value)
write_offset_u16_to_be(buff, offset, value) == write_offset_u16(buff, offset, to_be(value))
write_offset_array(buff, offset, value) == store(buff, offset, value)

(***************************************************************************)
(* packet! (macros.rs): the view pair.  Option<View> is a record.          *)
(***************************************************************************)
None == [some |-> FALSE]
Some(data) == [some |-> TRUE, data |-> data]

\* $name::new
packet_new(data, min_len) == IF Len(data) >= min_len THEN Some(data) ELSE None
\* as $mut_name::new, with > for >=
packet_new_mut_strict(data, min_len) == IF Len(data) > min_len THEN Some(data) ELSE None
\* $mut_name::new
packet_new_mut(data, min_len) == IF Len(data) >= min_len THEN Some(data) ELSE None
packet_data(data) == data
packet_header(data, min_len) == SubSeq(data, 1, min_len)
\* as payload, with &self.0[$min_len - 1..]
packet_payload_early(data, min_len) == SubSeq(data, min_len, Len(data))
packet_payload(data, min_len) == SubSeq(data, min_len + 1, Len(data))
\* as $mut_name::as_immutable, with &self.0[1..]
packet_as_immutable_tail(data) == SubSeq(data, 2, Len(data))
\* $mut_name::as_immutable: $name(&self.0[..])
packet_as_immutable(data) == SubSeq(data, 1, Len(data))
\* view.payload()[i] = b on the mutable view: payload() is the slice
\* &mut self.0[$min_len..] of the backing bytes, and indexing it panics
\* unless i < its length
packet_payload_write(data, min_len, i, b) ==
    LET payload == packet_payload(data, min_len) IN
    IF i >= Len(payload)
    THEN [panic |-> TRUE, data |-> data]
    ELSE [panic |-> FALSE,
          data |-> packet_header(data, min_len) \o [payload EXCEPT ![i + 1] = b]]

\* as borrow_mut, were the setters to take &self
borrow_mut_shared(v, r) == v = "mutable"
\* what the borrow checker asks of a call that takes &mut self on the view:
\* the mutable view exists (it holds the only reference to the bytes, the
\* &'a mut [u8]) and no view that as_immutable(&'a self) returned is live
borrow_mut(v, r) == v = "mutable" /\ ~r.some

(***************************************************************************)
(* MacAddr (ethernet/macaddr.rs)                                           *)
(***************************************************************************)
BROADCAST_MAC == <<255, 255, 255, 255, 255, 255>>

\* <[u8]>::copy_from_slice panics unless destination and source are equally long
copy_from_slice_panics(dst_len, src_len) == dst_len # src_len
\* <[u8]>::copy_from_slice on buff[lo..hi]
copy_from_slice(buff, lo, hi, src) ==
    IF copy_from_slice_panics(hi - lo, Len(src)) THEN "panic" ELSE store(buff, lo, src)

\* MacAddr::default()
MacAddr_default == <<0, 0, 0, 0, 0, 0>>
\* MacAddr::from_slice: the default address with slice copied over its bytes
MacAddr_from_slice(slice) == copy_from_slice(MacAddr_default, 0, 6, slice)
\* as try_from_slice, with >= for == and the first six bytes taken
MacAddr_try_from_slice_prefix(slice) ==
    IF Len(slice) >= 6
    THEN [ok |-> TRUE, value |-> MacAddr_from_slice(SubSeq(slice, 1, 6))]
    ELSE [ok |-> FALSE, e |-> "MacAddrLengthError"]
\* MacAddr::try_from_slice: Result<MacAddr, MacAddrLengthError>
MacAddr_try_from_slice(slice) ==
    IF Len(slice) = 6
    THEN [ok |-> TRUE, value |-> MacAddr_from_slice(slice)]
    ELSE [ok |-> FALSE, e |-> "MacAddrLengthError"]

(***************************************************************************)
(* EthernetPacket (ethernet/mod.rs)                                        *)
(***************************************************************************)
ETHERNET_MIN_LEN == 14
IPV4 == 2048      \* EtherType(0x0800)
ARP  == 2054      \* EtherType(0x0806)
IPV6 == 34525     \* EtherType(0x86DD)

EthernetPacket_new(data) == packet_new(data, ETHERNET_MIN_LEN)
EthernetPacket_destination(data) == MacAddr_from_slice(SubSeq(data, 1, 6))
EthernetPacket_source(data) == MacAddr_from_slice(SubSeq(data, 7, 12))
\* as ether_type(), without the from_be conversion
EthernetPacket_ether_type_native(data) == read_offset_u16(data, 12)
EthernetPacket_ether_type(data) == read_offset_u16_from_be(data, 12)
\* as payload(), the slice taken from index 0
EthernetPacket_payload_whole(data) == packet_payload(data, 0)
EthernetPacket_payload(data) == packet_payload(data, ETHERNET_MIN_LEN)

MutEthernetPacket_set_destination(data, destination) ==
    copy_from_slice(data, 0, 6, destination)
MutEthernetPacket_set_source(data, source) ==
    copy_from_slice(data, 6, 12, source)
MutEthernetPacket_set_ether_type(data, ether_type) ==
    write_offset_u16_to_be(data, 12, ether_type)

(***************************************************************************)
(* ArpPacket (arp.rs)                                                      *)
(***************************************************************************)
ARP_MIN_LEN == 28
\* u8::to_be
u8_to_be(x) == x

ArpPacket_hardware_type(data) == read_offset_u16_from_be(data, 0)
ArpPacket_protocol_type(data) == read_offset_u16_from_be(data, 2)
ArpPacket_hardware_length(data) == read_offset_u8(data, 4)
ArpPacket_protocol_length(data) == read_offset_u8(data, 5)
ArpPacket_operation(data) == read_offset_u16_from_be(data, 6)
ArpPacket_sender_mac_addr(data) == MacAddr_from_slice(SubSeq(data, 9, 14))
ArpPacket_sender_ip_addr(data) == read_offset_array(data, 14, 4)
ArpPacket_target_mac_addr(data) == MacAddr_from_slice(SubSeq(data, 19, 24))
ArpPacket_target_ip_addr(data) == read_offset_array(data, 24, 4)

MutArpPacket_set_hardware_type(data, hardware_type) ==
    write_offset_u16_to_be(data, 0, hardware_type)
MutArpPacket_set_protocol_type(data, protocol_type) ==
    write_offset_u16_to_be(data, 2, protocol_type)
MutArpPacket_set_hardware_length(data, hardware_length) ==
    write_offset_u8(data, 4, u8_to_be(hardware_length))
MutArpPacket_set_protocol_length(data, protocol_length) ==
    write_offset_u8(data, 5, u8_to_be(protocol_length))
MutArpPacket_set_operation(data, operation) ==
    write_offset_u16_to_be(data, 6, operation)
MutArpPacket_set_sender_mac_addr(data, sender_mac) ==
    copy_from_slice(data, 8, 14, sender_mac)
\* as set_sender_ip_addr, copying into [16..20]
MutArpPacket_set_sender_ip_addr_late(data, sender_ip) ==
    copy_from_slice(data, 16, 20, sender_ip)
MutArpPacket_set_sender_ip_addr(data, sender_ip) ==
    copy_from_slice(data, 14, 18, sender_ip)
MutArpPacket_set_target_mac_addr(data, target_mac) ==
    copy_from_slice(data, 18, 24, target_mac)
MutArpPacket_set_target_ip_addr(data, target_ip) ==
    copy_from_slice(data, 24, 28, target_ip)

HardwareType_ETHERNET == 1
\* as set_ipv4_over_ethernet_values, without its last call
MutArpPacket_set_ipv4_over_ethernet_values_short(data) ==
    MutArpPacket_set_hardware_length(
        MutArpPacket_set_protocol_type(
            MutArpPacket_set_hardware_type(data, HardwareType_ETHERNET), IPV4), 6)
MutArpPacket_set_ipv4_over_ethernet_values(data) ==
    MutArpPacket_set_protocol_length(
        MutArpPacket_set_hardware_length(
            MutArpPacket_set_protocol_type(
                MutArpPacket_set_hardware_type(data, HardwareType_ETHERNET), IPV4), 6), 4)

(***************************************************************************)
(* Ipv4Packet (ipv4.rs).  u2, u3, u4, u6 are u8 and u13 is u16.            *)
(***************************************************************************)
IPV4_MIN_LEN == 20
DF == 2     \* flags::DF = 0b010
MF == 1     \* flags::MF = 0b001

Ipv4Packet_version(data) == Shr(read_offset_u8(data, 0), 4)
Ipv4Packet_header_length(data) == BitAnd(read_offset_u8(data, 0), 15)
Ipv4Packet_dscp(data) == Shr(read_offset_u8(data, 1), 2)
Ipv4Packet_ecn(data) == BitAnd(read_offset_u8(data, 1), 3)
Ipv4Packet_total_length(data) == read_offset_u16_from_be(data, 2)
Ipv4Packet_identification(data) == read_offset_u16_from_be(data, 4)
\* as flags(), shifting by 4
Ipv4Packet_flags_nibble(data) == Shr(read_offset_u8(data, 6), 4)
Ipv4Packet_flags(data) == Shr(read_offset_u8(data, 6), 5)
Ipv4Packet_dont_fragment(data) == BitAnd(Ipv4Packet_flags(data), DF) # 0
Ipv4Packet_more_fragments(data) == BitAnd(Ipv4Packet_flags(data), MF) # 0
Ipv4Packet_fragment_offset(data) == BitAnd(read_offset_u16_from_be(data, 6), 8191)
Ipv4Packet_ttl(data) == read_offset_u8(data, 8)
Ipv4Packet_protocol(data) == read_offset_u8(data, 9)
Ipv4Packet_header_checksum(data) == read_offset_u16_from_be(data, 10)
Ipv4Packet_source(data) == read_offset_array(data, 12, 4)
Ipv4Packet_destination(data) == read_offset_array(data, 16, 4)

MutIpv4Packet_set_version(data, version) ==
    LET new_byte == BitOr(Shl(version, 4, 8), BitAnd(read_offset_u8(data, 0), 15))
    IN write_offset_u8(data, 0, new_byte)
\* as set_header_length(), without the & 0x0f on the argument
MutIpv4Packet_set_header_length_unmasked(data, header_length) ==
    LET new_byte == BitOr(BitAnd(read_offset_u8(data, 0), 240), header_length)
    IN write_offset_u8(data, 0, new_byte)
MutIpv4Packet_set_header_length(data, header_length) ==
    LET new_byte == BitOr(BitAnd(read_offset_u8(data, 0), 240), BitAnd(header_length, 15))
    IN write_offset_u8(data, 0, new_byte)
MutIpv4Packet_set_dscp(data, dscp) ==
    LET new_byte == BitOr(Shl(dscp, 2, 8), BitAnd(read_offset_u8(data, 1), 3))
    IN write_offset_u8(data, 1, new_byte)
MutIpv4Packet_set_ecn(data, ecn) ==
    LET new_byte == BitOr(BitAnd(read_offset_u8(data, 1), 252), BitAnd(ecn, 3))
    IN write_offset_u8(data, 1, new_byte)
MutIpv4Packet_set_total_length(data, total_length) ==
    write_offset_u16_to_be(data, 2, total_length)
MutIpv4Packet_set_identification(data, identification) ==
    write_offset_u16_to_be(data, 4, identification)
\* as set_flags(), without the bits read back from the byte
MutIpv4Packet_set_flags_alone(data, flags) ==
    write_offset_u8(data, 6, Shl(flags, 5, 8))
MutIpv4Packet_set_flags(data, flags) ==
    LET new_byte == BitOr(Shl(flags, 5, 8), BitAnd(read_offset_u8(data, 6), 31))
    IN write_offset_u8(data, 6, new_byte)
\* as set_fragment_offset(), keeping two of the three flag bits (mask 0xc000)
MutIpv4Packet_set_fragment_offset_mask(data, fragment_offset) ==
    LET new_byte == BitOr(BitAnd(read_offset_u16_from_be(data, 6), 49152),
                          BitAnd(fragment_offset, 8191))
    IN write_offset_u16_to_be(data, 6, new_byte)
MutIpv4Packet_set_fragment_offset(data, fragment_offset) ==
    LET new_byte == BitOr(BitAnd(read_offset_u16_from_be(data, 6), 57344),
                          BitAnd(fragment_offset, 8191))
    IN write_offset_u16_to_be(data, 6, new_byte)
MutIpv4Packet_set_ttl(data, ttl) == write_offset_u8(data, 8, ttl)
MutIpv4Packet_set_protocol(data, protocol) == write_offset_u8(data, 9, protocol)
MutIpv4Packet_set_header_checksum(data, checksum) ==
    write_offset_u16_to_be(data, 10, checksum)
MutIpv4Packet_set_source(data, source) == write_offset_array(data, 12, source)
MutIpv4Packet_set_destination(data, destination) ==
    write_offset_array(data, 16, destination)

(***************************************************************************)
(* Ipv6Packet (ipv6.rs)                                                    *)
(***************************************************************************)
IPV6_MIN_LEN == 40

Ipv6Packet_version(data) == Shr(read_offset_u8(data, 0), 4)
Ipv6Packet_payload_length(data) == read_offset_u16_from_be(data, 4)
Ipv6Packet_next_header(data) == read_offset_u8(data, 6)
Ipv6Packet_hop_limit(data) == read_offset_u8(data, 7)
Ipv6Packet_source(data) == read_offset_array(data, 8, 16)
Ipv6Packet_destination(data) == read_offset_array(data, 24, 16)

MutIpv6Packet_set_version(data, version) ==
    LET new_byte == BitOr(Shl(version, 4, 8), BitAnd(read_offset_u8(data, 0), 15))
    IN write_offset_u8(data, 0, new_byte)
MutIpv6Packet_set_payload_length(data, payload_length) ==
    write_offset_u16_to_be(data, 4, payload_length)
MutIpv6Packet_set_next_header(data, protocol) == write_offset_u8(data, 6, protocol)
MutIpv6Packet_set_hop_limit(data, hop_limit) == write_offset_u8(data, 7, hop_limit)
MutIpv6Packet_set_source(data, source) == write_offset_array(data, 8, source)
MutIpv6Packet_set_destination(data, destination) ==
    write_offset_array(data, 24, destination)

(***************************************************************************)
(* The four packet types side by side: the fields each has a getter and a  *)
(* setter for, and the call of the getter or setter of a field by name.    *)
(***************************************************************************)
Kinds == {"ethernet", "arp", "ipv4", "ipv6"}

min_len(k) ==
    CASE k = "ethernet" -> ETHERNET_MIN_LEN
      [] k = "arp"      -> ARP_MIN_LEN
      [] k = "ipv4"     -> IPV4_MIN_LEN
      [] k = "ipv6"     -> IPV6_MIN_LEN

Fields(k) ==
    CASE k = "ethernet" -> {"destination", "source", "ether_type"}
      [] k = "arp"      -> {"hardware_type", "protocol_type", "hardware_length",
                            "protocol_length", "operation", "sender_mac_addr",
                            "sender_ip_addr", "target_mac_addr", "target_ip_addr"}
      [] k = "ipv4"     -> {"version", "header_length", "dscp", "ecn", "total_length",
                            "identification", "flags", "fragment_offset", "ttl",
                            "protocol", "header_checksum", "source", "destination"}
      [] k = "ipv6"     -> {"version", "payload_length", "next_header", "hop_limit",
                            "source", "destination"}

getter(k, f, data) ==
    CASE k = "ethernet" ->
           (CASE f = "destination" -> EthernetPacket_destination(data)
              [] f = "source"      -> EthernetPacket_source(data)
              [] f = "ether_type"  -> EthernetPacket_ether_type(data))
      [] k = "arp" ->
           (CASE f = "hardware_type"   -> ArpPacket_hardware_type(data)
              [] f = "protocol_type"   -> ArpPacket_protocol_type(data)
              [] f = "hardware_length" -> ArpPacket_hardware_length(data)
              [] f = "protocol_length" -> ArpPacket_protocol_length(data)
              [] f = "operation"       -> ArpPacket_operation(data)
              [] f = "sender_mac_addr" -> ArpPacket_sender_mac_addr(data)
              [] f = "sender_ip_addr"  -> ArpPacket_sender_ip_addr(data)
              [] f = "target_mac_addr" -> ArpPacket_target_mac_addr(data)
              [] f = "target_ip_addr"  -> ArpPacket_target_ip_addr(data))
      [] k = "ipv4" ->
           (CASE f = "version"         -> Ipv4Packet_version(data)
              [] f = "header_length"   -> Ipv4Packet_header_length(data)
              [] f = "dscp"            -> Ipv4Packet_dscp(data)
              [] f = "ecn"             -> Ipv4Packet_ecn(data)
              [] f = "total_length"    -> Ipv4Packet_total_length(data)
              [] f = "identification"  -> Ipv4Packet_identification(data)
              [] f = "flags"           -> Ipv4Packet_flags(data)
              [] f = "fragment_offset" -> Ipv4Packet_fragment_offset(data)
              [] f = "ttl"             -> Ipv4Packet_ttl(data)
              [] f = "protocol"        -> Ipv4Packet_protocol(data)
              [] f = "header_checksum" -> Ipv4Packet_header_checksum(data)
              [] f = "source"          -> Ipv4Packet_source(data)
              [] f = "destination"     -> Ipv4Packet_destination(data))
      [] k = "ipv6" ->
           (CASE f = "version"        -> Ipv6Packet_version(data)
              [] f = "payload_length" -> Ipv6Packet_payload_length(data)
              [] f = "next_header"    -> Ipv6Packet_next_header(data)
              [] f = "hop_limit"      -> Ipv6Packet_hop_limit(data)
              [] f = "source"         -> Ipv6Packet_source(data)
              [] f = "destination"    -> Ipv6Packet_destination(data))

setter(k, f, data, v) ==
    CASE k = "ethernet" ->
           (CASE f = "destination" -> MutEthernetPacket_set_destination(data, v)
              [] f = "source"      -> MutEthernetPacket_set_source(data, v)
              [] f = "ether_type"  -> MutEthernetPacket_set_ether_type(data, v))
      [] k = "arp" ->
           (CASE f = "hardware_type"   -> MutArpPacket_set_hardware_type(data, v)
              [] f = "protocol_type"   -> MutArpPacket_set_protocol_type(data, v)
              [] f = "hardware_length" -> MutArpPacket_set_hardware_length(data, v)
              [] f = "protocol_length" -> MutArpPacket_set_protocol_length(data, v)
              [] f = "operation"       -> MutArpPacket_set_operation(data, v)
              [] f = "sender_mac_addr" -> MutArpPacket_set_sender_mac_addr(data, v)
              [] f = "sender_ip_addr"  -> MutArpPacket_set_sender_ip_addr(data, v)
              [] f = "target_mac_addr" -> MutArpPacket_set_target_mac_addr(data, v)
              [] f = "target_ip_addr"  -> MutArpPacket_set_target_ip_addr(data, v))
      [] k = "ipv4" ->
           (CASE f = "version"         -> MutIpv4Packet_set_version(data, v)
              [] f = "header_length"   -> MutIpv4Packet_set_header_length(data, v)
              [] f = "dscp"            -> MutIpv4Packet_set_dscp(data, v)
              [] f = "ecn"             -> MutIpv4Packet_set_ecn(data, v)
              [] f = "total_length"    -> MutIpv4Packet_set_total_length(data, v)
              [] f = "identification"  -> MutIpv4Packet_set_identification(data, v)
              [] f = "flags"           -> MutIpv4Packet_set_flags(data, v)
              [] f = "fragment_offset" -> MutIpv4Packet_set_fragment_offset(data, v)
              [] f = "ttl"             -> MutIpv4Packet_set_ttl(data, v)
              [] f = "protocol"        -> MutIpv4Packet_set_protocol(data, v)
              [] f = "header_checksum" -> MutIpv4Packet_set_header_checksum(data, v)
              [] f = "source"          -> MutIpv4Packet_set_source(data, v)
              [] f = "destination"     -> MutIpv4Packet_set_destination(data, v))
      [] k = "ipv6" ->
           (CASE f = "version"        -> MutIpv6Packet_set_version(data, v)
              [] f = "payload_length" -> MutIpv6Packet_set_payload_length(data, v)
              [] f = "next_header"    -> MutIpv6Packet_set_next_header(data, v)
              [] f = "hop_limit"      -> MutIpv6Packet_set_hop_limit(data, v)
              [] f = "source"         -> MutIpv6Packet_set_source(data, v)
              [] f = "destination"    -> MutIpv6Packet_set_destination(data, v))

(***************************************************************************)
(* Which bytes a getter or setter reaches, and what is checked first.      *)
(* read_offset! / write_offset! index buff[offset], which panics unless    *)
(* offset < len, and then access size_of::<type>() bytes through the       *)
(* pointer to that byte: nothing checks the bytes after the first.  A      *)
(* range index buff[lo..hi] panics unless hi <= len.                       *)
(***************************************************************************)
\* read_offset!(buff, offset, type) / write_offset!(buff, offset, _, type)
\* with size_of::<type>() = n
PointerAccess(offset, n) == [how |-> "pointer", offset |-> offset, n |-> n]
\* buff[lo..hi]
RangeAccess(lo, hi) == [how |-> "range", offset |-> lo, n |-> hi - lo]

getter_access(k, f) ==
    CASE k = "ethernet" ->
           (CASE f = "destination" -> RangeAccess(0, 6)
              [] f = "source"      -> RangeAccess(6, 12)
              [] f = "ether_type"  -> PointerAccess(12, 2))
      [] k = "arp" ->
           (CASE f = "hardware_type"   -> PointerAccess(0, 2)
              [] f = "protocol_type"   -> PointerAccess(2, 2)
              [] f = "hardware_length" -> PointerAccess(4, 1)
              [] f = "protocol_length" -> PointerAccess(5, 1)
              [] f = "operation"       -> PointerAccess(6, 2)
              [] f = "sender_mac_addr" -> RangeAccess(8, 14)
              [] f = "sender_ip_addr"  -> PointerAccess(14, 4)
              [] f = "target_mac_addr" -> RangeAccess(18, 24)
              [] f = "target_ip_addr"  -> PointerAccess(24, 4))
      [] k = "ipv4" ->
           (CASE f = "version"         -> PointerAccess(0, 1)
              [] f = "header_length"   -> PointerAccess(0, 1)
              [] f = "dscp"            -> PointerAccess(1, 1)
              [] f = "ecn"             -> PointerAccess(1, 1)
              [] f = "total_length"    -> PointerAccess(2, 2)
              [] f = "identification"  -> PointerAccess(4, 2)
              [] f = "flags"           -> PointerAccess(6, 1)
              [] f = "fragment_offset" -> PointerAccess(6, 2)
              [] f = "ttl"             -> PointerAccess(8, 1)
              [] f = "protocol"        -> PointerAccess(9, 1)
              [] f = "header_checksum" -> PointerAccess(10, 2)
              [] f = "source"          -> PointerAccess(12, 4)
              [] f = "destination"     -> PointerAccess(16, 4))
      [] k = "ipv6" ->
           (CASE f = "version"        -> PointerAccess(0, 1)
              [] f = "payload_length" -> PointerAccess(4, 2)
              [] f = "next_header"    -> PointerAccess(6, 1)
              [] f = "hop_limit"      -> PointerAccess(7, 1)
              [] f = "source"         -> PointerAccess(8, 16)
              [] f = "destination"    -> PointerAccess(24, 16))

\* as setter_access, with set_target_ip_addr copying into [24..29]
setter_access_long(k, f) ==
    IF k = "arp" /\ f = "target_ip_addr" THEN RangeAccess(24, 29)
    ELSE getter_access(k, f)
\* the setters reach the bytes their getters reach; the four address setters
\* of MutArpPacket copy into a range where two of the getters read through
\* the pointer
setter_access(k, f) ==
    IF k = "arp" /\ f = "sender_ip_addr" THEN RangeAccess(14, 18)
    ELSE IF k = "arp" /\ f = "target_ip_addr" THEN RangeAccess(24, 28)
    ELSE getter_access(k, f)

\* the index expression of the access a panics on a buffer of len bytes
index_panics(a, len) ==
    IF a.how = "range" THEN a.offset + a.n > len ELSE a.offset >= len
\* the byte indices the access a reads or writes once the index is past
accessed(a) == a.offset..(a.offset + a.n - 1)

\* $name::new_unchecked / $mut_name::new_unchecked: the view, whatever the length
packet_new_unchecked(data) == data

\* view.<f>() on the view over data, with the bytes mem following data in
\* memory: a panic, or the value with the indices read.  An access that runs
\* past data reads what lies there.
view_get(k, f, data, mem) ==
    LET a == getter_access(k, f) IN
    IF index_panics(a, Len(data))
    THEN [panic |-> TRUE, touched |-> {}]
    ELSE [panic |-> FALSE, touched |-> accessed(a),
          value |-> getter(k, f, data \o mem)]

\* view.set_<f>(v): a panic, or the bytes of data and of the memory after it
\* once the setter has returned.  An access that runs past data reads and
\* overwrites what lies there.
view_set(k, f, data, mem, v) ==
    LET a == setter_access(k, f) IN
    IF index_panics(a, Len(data))
    THEN [panic |-> TRUE, touched |-> {}, data |-> data, mem |-> mem]
    ELSE LET all == setter(k, f, data \o mem, v) IN
         [panic |-> FALSE, touched |-> accessed(a),
          data |-> SubSeq(all, 1, Len(data)),
          mem  |-> SubSeq(all, Len(data) + 1, Len(all))]

(***************************************************************************)
(* ethernet_rx! (core/src/ethernet/rx.rs)                                  *)
(***************************************************************************)
\* what a listener's recv returns: Ok(()) or Err(e)
Ok == [ok |-> TRUE]
Err(e) == [ok |-> FALSE, e |-> e]
ListenerResults == {Ok, Err("AddrNotAvailable"), Err("Other")}

\* $error_struct_name
TooShortPacket == [tag |-> "TooShortPacket"]
InvalidDestination(m) == [tag |-> "InvalidDestination", mac |-> m]
IgnoredEtherType(t) == [tag |-> "IgnoredEtherType", ether_type |-> t]
\* as the map_err closure, every route wrapping in the first route's variant
map_err_first_variant(error_name, r) ==
    IF r.ok THEN Ok ELSE Err([tag |-> "AError", e |-> r.e])
\* .map_err(|e| $error_struct_name::$error_name(e))
map_err(error_name, r) == IF r.ok THEN Ok ELSE Err([tag |-> error_name, e |-> r.e])

\* the routes' if-chain of route(), from the i-th repetition on: the set of
\* [ret, invoked] the call can end with, one per result the listener can return
RECURSIVE route_from(_, _, _)
route_from(i, rs, packet) ==
    LET ether_type == EthernetPacket_ether_type(packet) IN
    IF i > Len(rs) THEN
        {[ret |-> Err(IgnoredEtherType(ether_type)), invoked |-> <<>>]}
    ELSE IF ether_type = rs[i].ether_type THEN
        {[ret     |-> map_err(rs[i].error_name, r),
          invoked |-> <<[listener |-> rs[i].listener_name,
                         data     |-> EthernetPacket_payload(packet),
                         ret      |-> r]>>] : r \in ListenerResults}
    ELSE route_from(i + 1, rs, packet)

\* as route(), the chain taken from its last repetition backwards
route_last_match(rs, packet) ==
    LET ether_type == EthernetPacket_ether_type(packet)
        matching == {j \in 1..Len(rs) : rs[j].ether_type = ether_type}
    IN
    IF matching = {} THEN
        {[ret |-> Err(IgnoredEtherType(ether_type)), invoked |-> <<>>]}
    ELSE LET j == CHOOSE m \in matching : \A k \in matching : k <= m IN
        {[ret     |-> map_err(rs[j].error_name, r),
          invoked |-> <<[listener |-> rs[j].listener_name,
                         data     |-> EthernetPacket_payload(packet),
                         ret      |-> r]>>] : r \in ListenerResults}
route(rs, packet) == route_from(1, rs, packet)

\* as recv(), without the comparison with BROADCAST_MAC
recv_outcomes_no_broadcast(self_mac, rs, data) ==
    LET packet == EthernetPacket_new(data) IN
    IF ~packet.some THEN {[ret |-> Err(TooShortPacket), invoked |-> <<>>]}
    ELSE LET destination == EthernetPacket_destination(packet.data) IN
         IF destination = self_mac
         THEN route(rs, packet.data)
         ELSE {[ret |-> Err(InvalidDestination(destination)), invoked |-> <<>>]}

\* as recv(), the destination compared before the length is checked
recv_outcomes_destination_first(self_mac, rs, data) ==
    IF Len(data) >= 6 /\ SubSeq(data, 1, 6) # self_mac /\ SubSeq(data, 1, 6) # BROADCAST_MAC
    THEN {[ret |-> Err(InvalidDestination(SubSeq(data, 1, 6))), invoked |-> <<>>]}
    ELSE LET packet == EthernetPacket_new(data) IN
         IF ~packet.some THEN {[ret |-> Err(TooShortPacket), invoked |-> <<>>]}
         ELSE route(rs, packet.data)

\* recv(): the set of [ret, invoked] the call can end with
recv_outcomes(self_mac, rs, data) ==
    LET packet == EthernetPacket_new(data) IN
    IF ~packet.some THEN {[ret |-> Err(TooShortPacket), invoked |-> <<>>]}
    ELSE LET destination == EthernetPacket_destination(packet.data) IN
         IF destination = self_mac \/ destination = BROADCAST_MAC
         THEN route(rs, packet.data)
         ELSE {[ret |-> Err(InvalidDestination(destination)), invoked |-> <<>>]}

\* as recv(), the dispatcher adopting the destination of a frame it rejects
mac_after_recv_learning(self_mac, data) ==
    IF Len(data) >= ETHERNET_MIN_LEN /\ SubSeq(data, 1, 6) # self_mac
       /\ SubSeq(data, 1, 6) # BROADCAST_MAC
    THEN SubSeq(data, 1, 6) ELSE self_mac

\* the dispatcher's fields after a recv call: recv takes &mut self and assigns
\* to none of them
mac_after_recv(self_mac, data) == self_mac
\* as recv(), the dispatcher moving its first route behind the others
routes_after_recv_rotated(rs, data) == IF rs = <<>> THEN rs ELSE Tail(rs) \o <<Head(rs)>>
routes_after_recv(rs, data) == rs

(***************************************************************************)
(* Inputs of the dispatcher                                                *)
(***************************************************************************)
MY_MAC   == <<255, 1, 2, 3, 4, 5>>
ZERO_MAC == <<0, 0, 0, 0, 0, 0>>
SRC_MAC  == <<2, 0, 0, 0, 0, 1>>
Macs  == {MY_MAC, ZERO_MAC}
Dests == {MY_MAC, ZERO_MAC, BROADCAST_MAC,
          <<255, 255, 255, 255, 255, 0>>, <<255, 1, 2, 3, 4, 6>>}
\* bytes 12..13 of a frame: IPV4, ARP, IPV6, zero, IPV4 with its bytes swapped
EtherTypeBytes == {<<8, 0>>, <<8, 6>>, <<134, 221>>, <<0, 0>>, <<0, 8>>}
Payloads == {[i \in 1..n |-> 98 + i] : n \in 0..MaxPayload}
FullFrames == {d \o SRC_MAC \o t \o p : d \in Dests, t \in EtherTypeBytes, p \in Payloads}
ShortFrames == {SubSeq(f, 1, n) : f \in FullFrames, n \in 0..(ETHERNET_MIN_LEN - 1)}
Frames == FullFrames \cup ShortFrames

ListenerNames == <<"a", "b", "c", "d">>
ErrorNames == <<"AError", "BError", "CError", "DError">>
RouteEtherTypes == {IPV4, ARP}
\* every macro invocation with up to MaxRoutes repetitions; field and variant
\* names are distinct identifiers, the discriminants are arbitrary expressions
RouteTables ==
    UNION {{[i \in 1..n |-> [ether_type    |-> ts[i],
                             listener_name |-> ListenerNames[i],
                             error_name    |-> ErrorNames[i]]] :
                ts \in [1..n -> RouteEtherTypes]} : n \in 0..MaxRoutes}

NoView == "none"
NoCall == [op |-> "none"]
\* no recv call has returned yet
NoResult == [pending |-> TRUE]

InitRx ==
    /\ host \in Hosts
    /\ built = FALSE
    /\ mac = ZERO_MAC
    /\ routes = <<>>
    /\ frame = <<>>
    /\ result = NoResult
    /\ invoked = <<>>
    /\ erred = FALSE
    /\ kind = "ethernet"
    /\ buf = <<>>
    /\ view = NoView
    /\ prev = <<>>
    /\ call = NoCall
    /\ nsets = 0
    /\ trusted = FALSE
    /\ after = <<>>
    /\ touched = {}
    /\ reader = None
    /\ written = <<>>
    /\ orig = buf
    /\ threads = [t \in 1..MaxThreads |->
                    [pc |-> "idle", frame |-> <<>>, result |-> NoResult, invoked |-> <<>>]]
    /\ holder = 0

\* $struct_name::new(mac, listeners...) of the macro invocation with routes rs
RxNew(m, rs) ==
    /\ ~built
    /\ built' = TRUE
    /\ mac' = m
    /\ routes' = rs
    /\ UNCHANGED <<host, frame, result, invoked, erred>>
    /\ UNCHANGED pktvars
    /\ UNCHANGED thrvars

\* rx.recv(data)
RxRecv(data) ==
    /\ built
    /\ \E out \in recv_outcomes(mac, routes, data) :
          /\ result' = out.ret
          /\ invoked' = out.invoked
    /\ frame' = data
    /\ erred' = (erred \/ (result # NoResult /\ ~result.ok))
    /\ mac' = mac_after_recv(mac, data)
    /\ routes' = routes_after_recv(routes, data)
    /\ UNCHANGED <<host, built>>
    /\ UNCHANGED pktvars
    /\ UNCHANGED thrvars

NextRx ==
    \/ \E m \in Macs, rs \in RouteTables : RxNew(m, rs)
    \/ \E data \in Frames : RxRecv(data)

SpecRx == InitRx /\ [][NextRx]_vars

(***************************************************************************)
(* Several threads, each with a frame buffer of its own, calling recv on   *)
(* one dispatcher.  recv takes &mut self: a thread is inside recv only     *)
(* while it holds the exclusive borrow of the dispatcher (behind a lock,   *)
(* say).  A call is two steps, up to the call of route and from there on.  *)
(***************************************************************************)
\* a frame arrives in the buffer of thread t
ThrFrame(t, data) ==
    /\ threads[t].pc \in {"idle", "returned"}
    /\ threads' = [threads EXCEPT ![t] =
                      [pc |-> "ready", frame |-> data, result |-> NoResult, invoked |-> <<>>]]
    /\ UNCHANGED <<host, holder>>
    /\ UNCHANGED rxvars
    /\ UNCHANGED pktvars

\* thread t calls rx.recv(&frame): EthernetPacket::new, destination(), and the
\* comparison with self.mac and BROADCAST_MAC
ThrRecv(t) ==
    /\ built
    /\ holder = 0
    /\ threads[t].pc = "ready"
    /\ LET data == threads[t].frame
           packet == EthernetPacket_new(data) IN
       IF ~packet.some THEN
           /\ threads' = [threads EXCEPT ![t].pc = "returned",
                                         ![t].result = Err(TooShortPacket)]
           /\ holder' = 0
       ELSE LET destination == EthernetPacket_destination(packet.data) IN
           IF destination = mac \/ destination = BROADCAST_MAC THEN
               /\ threads' = [threads EXCEPT ![t].pc = "route"]
               /\ holder' = t
           ELSE
               /\ threads' = [threads EXCEPT ![t].pc = "returned",
                                 ![t].result = Err(InvalidDestination(destination))]
               /\ holder' = 0
    /\ UNCHANGED host
    /\ UNCHANGED rxvars
    /\ UNCHANGED pktvars

\* thread t inside recv: self.route(packet), and the return
ThrRoute(t) ==
    /\ holder = t
    /\ threads[t].pc = "route"
    /\ \E out \in route(routes, threads[t].frame) :
          threads' = [threads EXCEPT ![t].pc = "returned",
                                    ![t].result = out.ret,
                                    ![t].invoked = out.invoked]
    /\ holder' = 0
    /\ mac' = mac_after_recv(mac, threads[t].frame)
    /\ routes' = routes_after_recv(routes, threads[t].frame)
    /\ UNCHANGED <<host, built, frame, result, invoked, erred>>
    /\ UNCHANGED pktvars

NextThreads ==
    \/ \E m \in Macs, rs \in RouteTables : RxNew(m, rs)
    \/ \E t \in 1..MaxThreads :
          \E data \in {MY_MAC \o SRC_MAC \o <<8, 0, 99>>,
                       BROADCAST_MAC \o SRC_MAC \o <<8, 6, 99>>,
                       SRC_MAC} : ThrFrame(t, data)
    \/ \E t \in 1..MaxThreads : ThrRecv(t)
    \/ \E t \in 1..MaxThreads : ThrRoute(t)

SpecThreads == InitRx /\ [][NextThreads]_vars

(***************************************************************************)
(* One buffer and the view over it: the inputs                             *)
(***************************************************************************)
\* what a caller can pass for a setter's argument: u2..u6 are u8 and u13 is
\* u16, so values wider than the field are accepted too
ArgType(k, f) ==
    CASE f \in {"version", "header_length"} -> "u4"
      [] f = "dscp" -> "u6"
      [] f = "ecn" -> "u2"
      [] f = "flags" -> "u3"
      [] f = "fragment_offset" -> "u13"
      [] f \in {"hardware_length", "protocol_length", "ttl", "protocol",
                "next_header", "hop_limit"} -> "u8"
      [] f \in {"ether_type", "hardware_type", "protocol_type", "operation",
                "total_length", "identification", "header_checksum",
                "payload_length"} -> "u16"
      [] f \in {"sender_mac_addr", "target_mac_addr"} -> "MacAddr"
      [] f \in {"sender_ip_addr", "target_ip_addr"} -> "Ipv4Addr"
      [] f \in {"source", "destination"} ->
            (CASE k = "ethernet" -> "MacAddr"
               [] k = "ipv4" -> "Ipv4Addr"
               [] k = "ipv6" -> "Ipv6Addr")

ArgValues(t) ==
    CASE t = "u2" -> 0..3 \cup {4, 255}
      [] t = "u3" -> 0..7 \cup {8, 255}
      [] t = "u4" -> {0, 1, 5, 10, 15, 16, 255}
      [] t = "u6" -> {0, 21, 42, 63, 64, 255}
      [] t = "u13" -> {0, 255, 256, 2730, 8191, 8192, 65535}
      [] t = "u8" -> {0, 1, 127, 128, 255}
      [] t = "u16" -> {0, 255, 256, 43981, 65535}
      [] t = "MacAddr" -> {ZERO_MAC, BROADCAST_MAC, <<1, 2, 3, 4, 5, 6>>}
      [] t = "Ipv4Addr" -> {<<0, 0, 0, 0>>, <<255, 255, 255, 255>>, <<192, 168, 15, 1>>}
      [] t = "Ipv6Addr" -> {[i \in 1..16 |-> 0], [i \in 1..16 |-> 255],
                            <<32, 1, 0, 1, 0, 2, 0, 3, 0, 4, 0, 5, 0, 6, 171, 205>>}

\* one argument of each setter argument type
SampleArg(t) ==
    CASE t = "u2" -> 2
      [] t = "u3" -> 5
      [] t = "u4" -> 10
      [] t = "u6" -> 42
      [] t = "u13" -> 2730
      [] t = "u8" -> 127
      [] t = "u16" -> 43981
      [] t = "MacAddr" -> <<1, 2, 3, 4, 5, 6>>
      [] t = "Ipv4Addr" -> <<192, 168, 15, 1>>
      [] t = "Ipv6Addr" -> <<32, 1, 0, 1, 0, 2, 0, 3, 0, 4, 0, 5, 0, 6, 171, 205>>

\* backing buffers: every length from 0 to the header and MaxPayload more,
\* filled with 0x00, 0xaa, 0xff or the bytes 1, 2, 3, ...
InitialBuffers(k) ==
    {[i \in 1..n |-> b] : n \in 0..(min_len(k) + MaxPayload), b \in {0, 170, 255}}
    \cup {[i \in 1..n |-> i] : n \in 0..(min_len(k) + MaxPayload)}

InitPkt ==
    /\ host \in Hosts
    /\ built = FALSE
    /\ mac = ZERO_MAC
    /\ routes = <<>>
    /\ frame = <<>>
    /\ result = NoResult
    /\ invoked = <<>>
    /\ erred = FALSE
    /\ kind \in Kinds
    /\ buf \in InitialBuffers(kind)
    /\ view = NoView
    /\ prev = buf
    /\ call = NoCall
    /\ nsets = 0
    /\ trusted = FALSE
    /\ after = <<>>
    /\ touched = {}
    /\ reader = None
    /\ written = <<>>
    /\ orig = buf
    /\ threads = [t \in 1..MaxThreads |->
                    [pc |-> "idle", frame |-> <<>>, result |-> NoResult, invoked |-> <<>>]]
    /\ holder = 0

\* $name::new(&buf)
PktNew ==
    /\ view = "none"
    /\ LET ret == packet_new(buf, min_len(kind)) IN
          /\ call' = [op |-> "new", mutable |-> FALSE, ret |-> ret]
          /\ view' = IF ret.some THEN "immutable" ELSE "none"
    /\ prev' = buf
    /\ UNCHANGED <<host, kind, buf, nsets>>
    /\ UNCHANGED memvars
    /\ UNCHANGED rxvars
    /\ UNCHANGED thrvars

\* $mut_name::new(&mut buf)
PktNewMut ==
    /\ view = "none"
    /\ LET ret == packet_new_mut(buf, min_len(kind)) IN
          /\ call' = [op |-> "new", mutable |-> TRUE, ret |-> ret]
          /\ view' = IF ret.some THEN "mutable" ELSE "none"
    /\ prev' = buf
    /\ UNCHANGED <<host, kind, buf, nsets>>
    /\ UNCHANGED memvars
    /\ UNCHANGED rxvars
    /\ UNCHANGED thrvars

\* view.set_<f>(v) on the mutable view
PktSet(f, v) ==
    /\ borrow_mut(view, reader)
    /\ nsets < MaxSets
    /\ buf' = setter(kind, f, buf, v)
    /\ prev' = buf
    /\ call' = [op |-> "set", field |-> f, arg |-> v]
    /\ nsets' = nsets + 1
    /\ UNCHANGED <<host, kind, view>>
    /\ UNCHANGED memvars
    /\ UNCHANGED rxvars
    /\ UNCHANGED thrvars

\* view.payload()[i] = b on the mutable view; a panic unwinds and the view is gone
PktPayloadWrite(i, b) ==
    /\ borrow_mut(view, reader)
    /\ nsets < MaxSets
    /\ LET r == packet_payload_write(buf, min_len(kind), i, b) IN
          /\ buf' = r.data
          /\ call' = [op |-> "payload_write", index |-> i, arg |-> b, panic |-> r.panic]
          /\ view' = IF r.panic THEN "none" ELSE view
    /\ prev' = buf
    /\ nsets' = nsets + 1
    /\ UNCHANGED <<host, kind>>
    /\ UNCHANGED memvars
    /\ UNCHANGED rxvars
    /\ UNCHANGED thrvars

\* let r = view.as_immutable() on the mutable view; call and prev keep the
\* latest write
PktAsImmutable ==
    /\ view = "mutable"
    /\ ~reader.some
    /\ reader' = Some(packet_as_immutable(buf))
    /\ UNCHANGED <<host, kind, buf, view, prev, call, nsets, trusted, after, touched, written, orig>>
    /\ UNCHANGED rxvars
    /\ UNCHANGED thrvars

\* the view that as_immutable returned goes out of scope
PktReaderDrop ==
    /\ reader.some
    /\ reader' = None
    /\ UNCHANGED <<host, kind, buf, view, prev, call, nsets, trusted, after, touched, written, orig>>
    /\ UNCHANGED rxvars
    /\ UNCHANGED thrvars

\* the view goes out of scope, which it cannot while it is borrowed
PktDrop ==
    /\ view # "none"
    /\ ~reader.some
    /\ view' = "none"
    /\ call' = [op |-> "drop"]
    /\ prev' = buf
    /\ UNCHANGED <<host, kind, buf, nsets>>
    /\ UNCHANGED memvars
    /\ UNCHANGED rxvars
    /\ UNCHANGED thrvars

NextPkt ==
    \/ PktNew
    \/ PktNewMut
    \/ \E f \in Fields(kind) : \E v \in ArgValues(ArgType(kind, f)) : PktSet(f, v)
    \/ PktDrop

SpecPkt == InitPkt /\ [][NextPkt]_vars

(***************************************************************************)
(* The mutable view with its payload slice and the immutable views it      *)
(* lends out.                                                              *)
(***************************************************************************)
NextView ==
    \/ PktNew
    \/ PktNewMut
    \/ \E f \in Fields(kind) : PktSet(f, SampleArg(ArgType(kind, f)))
    \/ \E i \in 0..MaxPayload : \E b \in {0, 99} : PktPayloadWrite(i, b)
    \/ PktAsImmutable
    \/ PktReaderDrop
    \/ PktDrop

SpecView == InitPkt /\ [][NextView]_vars

(***************************************************************************)
(* MacAddr::try_from_slice and MacAddr::from_slice on slices of 0 to       *)
(* MaxSlice bytes.  buf is the slice.                                      *)
(***************************************************************************)
InitMac ==
    /\ host \in Hosts
    /\ built = FALSE
    /\ mac = ZERO_MAC
    /\ routes = <<>>
    /\ frame = <<>>
    /\ result = NoResult
    /\ invoked = <<>>
    /\ erred = FALSE
    /\ kind = "ethernet"
    /\ buf \in UNION {[1..n -> {0, 255}] : n \in 0..MaxSlice}
               \cup {[i \in 1..n |-> i + 4] : n \in 0..MaxSlice}
    /\ view = NoView
    /\ prev = buf
    /\ call = NoCall
    /\ nsets = 0
    /\ trusted = FALSE
    /\ after = <<>>
    /\ touched = {}
    /\ reader = None
    /\ written = <<>>
    /\ orig = buf
    /\ threads = [t \in 1..MaxThreads |->
                    [pc |-> "idle", frame |-> <<>>, result |-> NoResult, invoked |-> <<>>]]
    /\ holder = 0

\* MacAddr::try_from_slice(&buf)
MacTryFromSlice ==
    /\ call' = [op |-> "try_from_slice", ret |-> MacAddr_try_from_slice(buf)]
    /\ UNCHANGED <<host, kind, buf, view, prev, nsets>>
    /\ UNCHANGED memvars
    /\ UNCHANGED rxvars
    /\ UNCHANGED thrvars

\* MacAddr::from_slice(&buf)
MacFromSlice ==
    /\ call' = IF copy_from_slice_panics(Len(MacAddr_default), Len(buf))
               THEN [op |-> "from_slice", panic |-> TRUE]
               ELSE [op |-> "from_slice", panic |-> FALSE, ret |-> MacAddr_from_slice(buf)]
    /\ UNCHANGED <<host, kind, buf, view, prev, nsets>>
    /\ UNCHANGED memvars
    /\ UNCHANGED rxvars
    /\ UNCHANGED thrvars

NextMac == MacTryFromSlice \/ MacFromSlice

SpecMac == InitMac /\ [][NextMac]_vars

(***************************************************************************)
(* An ARP header filled in setter by setter, in any order.                 *)
(***************************************************************************)
\* the arguments of tests::setters_incremental
IncrementalArg(f) ==
    CASE f = "hardware_type"   -> 258
      [] f = "protocol_type"   -> 772
      [] f = "hardware_length" -> 5
      [] f = "protocol_length" -> 6
      [] f = "operation"       -> 1800
      [] f = "sender_mac_addr" -> <<9, 10, 11, 12, 13, 14>>
      [] f = "sender_ip_addr"  -> <<15, 16, 17, 18>>
      [] f = "target_mac_addr" -> <<19, 20, 21, 22, 23, 24>>
      [] f = "target_ip_addr"  -> <<25, 26, 27, 28>>

\* w with the value v for the field f
Record(w, f, v) == [g \in DOMAIN w \cup {f} |-> IF g = f THEN v ELSE w[g]]

\* a mutable view from MutArpPacket::new over a buffer of the header and 0 or
\* MaxPayload more bytes, all 0x00 or all 0xff
InitArp ==
    /\ host \in Hosts
    /\ built = FALSE
    /\ mac = ZERO_MAC
    /\ routes = <<>>
    /\ frame = <<>>
    /\ result = NoResult
    /\ invoked = <<>>
    /\ erred = FALSE
    /\ kind = "arp"
    /\ buf \in {[i \in 1..n |-> b] : n \in {ARP_MIN_LEN, ARP_MIN_LEN + MaxPayload},
                                       b \in {0, 255}}
    /\ view = "mutable"
    /\ prev = buf
    /\ call = [op |-> "new", mutable |-> TRUE, ret |-> packet_new_mut(buf, ARP_MIN_LEN)]
    /\ nsets = 0
    /\ trusted = FALSE
    /\ after = <<>>
    /\ touched = {}
    /\ reader = None
    /\ written = <<>>
    /\ orig = buf
    /\ threads = [t \in 1..MaxThreads |->
                    [pc |-> "idle", frame |-> <<>>, result |-> NoResult, invoked |-> <<>>]]
    /\ holder = 0

\* testee.set_<f>(v), for a field not set before
ArpSet(f, v) ==
    /\ f \notin DOMAIN written
    /\ buf' = setter(kind, f, buf, v)
    /\ prev' = buf
    /\ call' = [op |-> "set", field |-> f, arg |-> v]
    /\ written' = Record(written, f, v)
    /\ UNCHANGED <<host, kind, view, nsets, trusted, after, touched, reader, orig>>
    /\ UNCHANGED rxvars
    /\ UNCHANGED thrvars

\* testee.set_ipv4_over_ethernet_values()
ArpSetIpv4OverEthernet ==
    /\ buf' = MutArpPacket_set_ipv4_over_ethernet_values(buf)
    /\ prev' = buf
    /\ call' = [op |-> "set_ipv4_over_ethernet_values"]
    /\ written' = Record(Record(Record(Record(written,
                        "hardware_type", HardwareType_ETHERNET),
                        "protocol_type", IPV4),
                        "hardware_length", 6),
                        "protocol_length", 4)
    /\ UNCHANGED <<host, kind, view, nsets, trusted, after, touched, reader, orig>>
    /\ UNCHANGED rxvars
    /\ UNCHANGED thrvars

NextArp ==
    \/ \E f \in Fields("arp") : ArpSet(f, IncrementalArg(f))
    \/ ArpSetIpv4OverEthernet

SpecArp == InitArp /\ [][NextArp]_vars

(***************************************************************************)
(* Sequences of setter calls on one mutable view, with the original bytes  *)
(* and the value each field was given last.                                *)
(***************************************************************************)
\* view.set_<f>(v), one call of a sequence of at most MaxSeq
SeqSet(f, v) ==
    /\ borrow_mut(view, reader)
    /\ nsets < MaxSeq
    /\ buf' = setter(kind, f, buf, v)
    /\ prev' = buf
    /\ call' = [op |-> "set", field |-> f, arg |-> v]
    /\ nsets' = nsets + 1
    /\ written' = Record(written, f, v)
    /\ UNCHANGED <<host, kind, view, trusted, after, touched, reader, orig>>
    /\ UNCHANGED rxvars
    /\ UNCHANGED thrvars

\* a field is given SampleArg by its first call and the value of the argument
\* type with every bit set by the calls after it
NextSeq ==
    \/ PktNewMut
    \/ \E f \in Fields(kind) :
          LET t == ArgType(kind, f)
              ones == CASE t \in {"u2", "u3", "u4", "u6", "u8"} -> 255
                        [] t \in {"u13", "u16"} -> 65535
                        [] t = "MacAddr" -> [i \in 1..6 |-> 255]
                        [] t = "Ipv4Addr" -> [i \in 1..4 |-> 255]
                        [] t = "Ipv6Addr" -> [i \in 1..16 |-> 255]
          IN SeqSet(f, IF f \in DOMAIN written THEN ones ELSE SampleArg(t))

SpecSeq == InitPkt /\ [][NextSeq]_vars

(***************************************************************************)
(* Views from new and from new_unchecked over buffers of every length,     *)
(* with the memory that follows the buffer, and the getters and setters    *)
(* called on them.                                                         *)
(***************************************************************************)
\* backing buffers of every length from 0 to the header and MaxPayload more,
\* holding the bytes 1, 2, 3, ..., followed in memory by 16 bytes 0x5a or 0xc3
InitAccess ==
    /\ host \in Hosts
    /\ built = FALSE
    /\ mac = ZERO_MAC
    /\ routes = <<>>
    /\ frame = <<>>
    /\ result = NoResult
    /\ invoked = <<>>
    /\ erred = FALSE
    /\ kind \in Kinds
    /\ buf \in {[i \in 1..n |-> i] : n \in 0..(min_len(kind) + MaxPayload)}
    /\ view = NoView
    /\ prev = buf
    /\ call = NoCall
    /\ nsets = 0
    /\ trusted = FALSE
    /\ after \in {[i \in 1..16 |-> b] : b \in {90, 195}}
    /\ touched = {}
    /\ reader = None
    /\ written = <<>>
    /\ orig = buf
    /\ threads = [t \in 1..MaxThreads |->
                    [pc |-> "idle", frame |-> <<>>, result |-> NoResult, invoked |-> <<>>]]
    /\ holder = 0

\* $name::new(&buf) / $mut_name::new(&mut buf)
AccNew(mutable) ==
    /\ view = "none"
    /\ LET ret == IF mutable THEN packet_new_mut(buf, min_len(kind))
                  ELSE packet_new(buf, min_len(kind)) IN
          /\ call' = [op |-> "new", mutable |-> mutable, ret |-> ret]
          /\ view' = IF ~ret.some THEN "none"
                     ELSE IF mutable THEN "mutable" ELSE "immutable"
    /\ trusted' = FALSE
    /\ touched' = {}
    /\ prev' = buf
    /\ UNCHANGED <<host, kind, buf, nsets, after, reader, written, orig>>
    /\ UNCHANGED rxvars
    /\ UNCHANGED thrvars

\* unsafe { $name::new_unchecked(&buf) } / unsafe { $mut_name::new_unchecked(&mut buf) }
AccNewUnchecked(mutable) ==
    /\ view = "none"
    /\ LET ret == packet_new_unchecked(buf) IN
          call' = [op |-> "new_unchecked", mutable |-> mutable, ret |-> Some(ret)]
    /\ view' = IF mutable THEN "mutable" ELSE "immutable"
    /\ trusted' = TRUE
    /\ touched' = {}
    /\ prev' = buf
    /\ UNCHANGED <<host, kind, buf, nsets, after, reader, written, orig>>
    /\ UNCHANGED rxvars
    /\ UNCHANGED thrvars

\* view.<f>() on the immutable view, the type that has the getters; a panic
\* unwinds and the view is gone
AccGet(f) ==
    /\ view = "immutable"
    /\ LET r == view_get(kind, f, buf, after) IN
          /\ call' = IF r.panic
                     THEN [op |-> "get", field |-> f, unchecked |-> trusted, panic |-> TRUE]
                     ELSE [op |-> "get", field |-> f, unchecked |-> trusted, panic |-> FALSE,
                           ret |-> r.value]
          /\ touched' = r.touched
          /\ view' = IF r.panic THEN "none" ELSE view
    /\ prev' = buf
    /\ UNCHANGED <<host, kind, buf, nsets, trusted, after, reader, written, orig>>
    /\ UNCHANGED rxvars
    /\ UNCHANGED thrvars

\* view.set_<f>(v) on the mutable view
AccSet(f, v) ==
    /\ view = "mutable"
    /\ nsets < MaxSets
    /\ LET r == view_set(kind, f, buf, after, v) IN
          /\ call' = [op |-> "set", field |-> f, unchecked |-> trusted, panic |-> r.panic,
                      arg |-> v]
          /\ touched' = r.touched
          /\ buf' = r.data
          /\ after' = r.mem
          /\ view' = IF r.panic THEN "none" ELSE view
    /\ prev' = buf
    /\ nsets' = nsets + 1
    /\ UNCHANGED <<host, kind, trusted, reader, written, orig>>
    /\ UNCHANGED rxvars
    /\ UNCHANGED thrvars

\* the view goes out of scope
AccDrop ==
    /\ view # "none"
    /\ view' = "none"
    /\ call' = [op |-> "drop"]
    /\ touched' = {}
    /\ prev' = buf
    /\ UNCHANGED <<host, kind, buf, nsets, trusted, after, reader, written, orig>>
    /\ UNCHANGED rxvars
    /\ UNCHANGED thrvars

NextAccess ==
    \/ \E m \in BOOLEAN : AccNew(m)
    \/ \E m \in BOOLEAN : AccNewUnchecked(m)
    \/ \E f \in Fields(kind) : AccGet(f)
    \/ \E f \in Fields(kind) : AccSet(f, SampleArg(ArgType(kind, f)))
    \/ AccDrop

SpecAccess == InitAccess /\ [][NextAccess]_vars

(***************************************************************************)
(* Properties of the dispatcher.  They are stated on the bytes of the      *)
(* frame, not through the operators of the model.                          *)
(***************************************************************************)
\* a recv call has returned
Returned == result # NoResult
FrameDest == SubSeq(frame, 1, 6)
FrameEtherType == 256 * frame[13] + frame[14]
FramePayload == SubSeq(frame, 15, Len(frame))
AllOnes == [i \in 1..6 |-> 255]
\* the latest frame passed the length and the destination checks
Admitted == Len(frame) >= 14 /\ (FrameDest = mac \/ FrameDest = AllOnes)
\* the latest recv call got as far as routing
Routed == result.ok \/ result.e.tag \notin {"TooShortPacket", "InvalidDestination"}
DistinctDiscriminants(rs) ==
    \A i, j \in 1..Len(rs) : i # j => rs[i].ether_type # rs[j].ether_type

\* C1: a frame of 14 bytes or more is routed iff its destination (bytes 0..5)
\* is the configured address or ff:ff:ff:ff:ff:ff; otherwise recv returns
\* InvalidDestination carrying the frame's destination and calls no listener.
C1_Admission ==
    (Returned /\ Len(frame) >= 14) =>
        IF FrameDest = mac \/ FrameDest = AllOnes
        THEN Routed
        ELSE /\ result = [ok |-> FALSE,
                          e |-> [tag |-> "InvalidDestination", mac |-> FrameDest]]
             /\ invoked = <<>>

\* a broadcast frame was routed by a dispatcher configured with another address
C1_Witness ==
    /\ Returned /\ Len(frame) >= 14
    /\ FrameDest = AllOnes /\ mac # AllOnes
    /\ Routed

\* C2: with distinct discriminants, an admitted frame whose EtherType is the
\* discriminant of a route calls that route's listener exactly once, with the
\* bytes from index 14 on, and calls no other listener.
C2_Routing ==
    (Returned /\ Admitted /\ DistinctDiscriminants(routes)) =>
        \A j \in 1..Len(routes) :
            FrameEtherType = routes[j].ether_type =>
                /\ Len(invoked) = 1
                /\ invoked[1].listener = routes[j].listener_name
                /\ invoked[1].data = FramePayload

\* the second of two routes received a non-empty payload
C2_Witness ==
    /\ Returned /\ Admitted /\ DistinctDiscriminants(routes)
    /\ Len(routes) = 2
    /\ FrameEtherType = routes[2].ether_type
    /\ Len(frame) > 14
    /\ Len(invoked) = 1 /\ invoked[1].listener = routes[2].listener_name

\* C3: a buffer of 0..13 bytes yields TooShortPacket and calls no listener,
\* whatever its content, the configured address and the routes.
C3_TooShort ==
    (Returned /\ Len(frame) < 14) =>
        /\ result = [ok |-> FALSE, e |-> [tag |-> "TooShortPacket"]]
        /\ invoked = <<>>

\* a 13-byte buffer that starts with a foreign destination was refused as too
\* short by a dispatcher that has routes
C3_Witness ==
    /\ Returned /\ Len(frame) = 13
    /\ FrameDest # mac /\ FrameDest # AllOnes
    /\ Len(routes) > 0
    /\ result = [ok |-> FALSE, e |-> [tag |-> "TooShortPacket"]]

\* C4: an admitted frame whose EtherType is no route's discriminant yields
\* IgnoredEtherType carrying 256 * byte 12 + byte 13 and calls no listener.
C4_Ignored ==
    (Returned /\ Admitted
        /\ \A j \in 1..Len(routes) : routes[j].ether_type # FrameEtherType) =>
        /\ result = [ok |-> FALSE,
                     e |-> [tag |-> "IgnoredEtherType", ether_type |-> FrameEtherType]]
        /\ invoked = <<>>

\* on a little-endian machine, a frame whose bytes 12..13 are 00 08 was ignored
\* by a dispatcher that has a route for 0x0800
C4_Witness ==
    /\ Returned /\ Admitted
    /\ host = "little"
    /\ FrameEtherType = 8
    /\ \E j \in 1..Len(routes) : routes[j].ether_type = 2048
    /\ result = [ok |-> FALSE, e |-> [tag |-> "IgnoredEtherType", ether_type |-> 8]]

\* C5: when the called listener returns Err(E), recv returns the variant of
\* that listener's route wrapping E; when it returns Ok, recv returns Ok.
C5_Delegated ==
    (Returned /\ Len(invoked) = 1) =>
        \A j \in 1..Len(routes) :
            routes[j].listener_name = invoked[1].listener =>
                IF invoked[1].ret.ok
                THEN result = [ok |-> TRUE]
                ELSE result = [ok |-> FALSE,
                               e |-> [tag |-> routes[j].error_name, e |-> invoked[1].ret.e]]

\* the listener of the second route failed
C5_Witness ==
    /\ Returned /\ Len(invoked) = 1
    /\ Len(routes) = 2
    /\ invoked[1].listener = routes[2].listener_name
    /\ ~invoked[1].ret.ok
    /\ result = [ok |-> FALSE, e |-> [tag |-> "BError", e |-> invoked[1].ret.e]]

\* C6: no constructed dispatcher has two routes with the same discriminant.
C6_DuplicatesRejected == built => DistinctDiscriminants(routes)

\* what C1..C5 make of a frame, a configuration and the listener calls made
ExpectedResult(f, m, rs, inv) ==
    IF Len(f) < 14 THEN [ok |-> FALSE, e |-> [tag |-> "TooShortPacket"]]
    ELSE IF SubSeq(f, 1, 6) # m /\ SubSeq(f, 1, 6) # AllOnes
    THEN [ok |-> FALSE, e |-> [tag |-> "InvalidDestination", mac |-> SubSeq(f, 1, 6)]]
    ELSE IF inv = <<>>
    THEN [ok |-> FALSE,
          e |-> [tag |-> "IgnoredEtherType", ether_type |-> 256 * f[13] + f[14]]]
    ELSE IF inv[1].ret.ok THEN [ok |-> TRUE]
    ELSE LET j == CHOOSE k \in 1..Len(rs) : rs[k].listener_name = inv[1].listener
         IN [ok |-> FALSE, e |-> [tag |-> rs[j].error_name, e |-> inv[1].ret.e]]

\* C7: no recv call, whatever it returns, changes the configured address or
\* the routes, and what a call returns is a function of its frame, the
\* configuration and the called listener's result alone.
C7_ConfigFixed ==
    [][built =>
        /\ built'
        /\ mac' = mac
        /\ routes' = routes
        /\ result' = ExpectedResult(frame', mac, routes, invoked')]_vars

\* a recv call returned Ok after an earlier call had failed
C7_Witness ==
    /\ erred
    /\ Returned /\ result.ok
    /\ Len(invoked) = 1

(***************************************************************************)
(* Properties of the packet views.  Header lengths, byte ranges and field  *)
(* widths are those of the wire formats, written out independently of the  *)
(* getters and setters.                                                    *)
(***************************************************************************)
HeaderLen(k) ==
    CASE k = "ethernet" -> 14 [] k = "arp" -> 28 [] k = "ipv4" -> 20 [] k = "ipv6" -> 40

\* the 0-based byte indices a field occupies
FieldBytes(k, f) ==
    CASE k = "ethernet" ->
           (CASE f = "destination" -> 0..5
              [] f = "source"      -> 6..11
              [] f = "ether_type"  -> 12..13)
      [] k = "arp" ->
           (CASE f = "hardware_type"   -> 0..1
              [] f = "protocol_type"   -> 2..3
              [] f = "hardware_length" -> {4}
              [] f = "protocol_length" -> {5}
              [] f = "operation"       -> 6..7
              [] f = "sender_mac_addr" -> 8..13
              [] f = "sender_ip_addr"  -> 14..17
              [] f = "target_mac_addr" -> 18..23
              [] f = "target_ip_addr"  -> 24..27)
      [] k = "ipv4" ->
           (CASE f \in {"version", "header_length"} -> {0}
              [] f \in {"dscp", "ecn"}              -> {1}
              [] f = "total_length"                 -> 2..3
              [] f = "identification"               -> 4..5
              [] f = "flags"                        -> {6}
              [] f = "fragment_offset"              -> 6..7
              [] f = "ttl"                          -> {8}
              [] f = "protocol"                     -> {9}
              [] f = "header_checksum"              -> 10..11
              [] f = "source"                       -> 12..15
              [] f = "destination"                  -> 16..19)
      [] k = "ipv6" ->
           (CASE f = "version"        -> {0}
              [] f = "payload_length" -> 4..5
              [] f = "next_header"    -> {6}
              [] f = "hop_limit"      -> {7}
              [] f = "source"         -> 8..23
              [] f = "destination"    -> 24..39)

\* the width in bits of a field
FieldBits(k, f) ==
    CASE k = "ipv4" /\ f \in {"version", "header_length"} -> 4
      [] k = "ipv6" /\ f = "version" -> 4
      [] k = "ipv4" /\ f = "dscp" -> 6
      [] k = "ipv4" /\ f = "ecn" -> 2
      [] k = "ipv4" /\ f = "flags" -> 3
      [] k = "ipv4" /\ f = "fragment_offset" -> 13
      [] OTHER -> 8 * Cardinality(FieldBytes(k, f))

\* v is a value of field f: a number of the field's width, or an address of
\* the field's length
Representable(k, f, v) ==
    IF f \in {"destination", "source", "sender_mac_addr", "sender_ip_addr",
              "target_mac_addr", "target_ip_addr"}
    THEN Len(v) = Cardinality(FieldBytes(k, f))
    ELSE v < 2 ^ FieldBits(k, f)

\* C8: new(buffer), immutable or mutable, returns None for every length
\* below the header length (14, 28, 20, 40) and a view over exactly the given
\* bytes for every other length, and does not change the buffer.
C8_New ==
    call.op = "new" =>
        /\ buf = prev
        /\ IF Len(buf) < HeaderLen(kind)
           THEN call.ret = [some |-> FALSE] /\ view = "none"
           ELSE /\ call.ret = [some |-> TRUE, data |-> buf]
                /\ view = IF call.mutable THEN "mutable" ELSE "immutable"

\* MutIpv6Packet::new succeeded on a buffer of exactly 40 bytes
C8_Witness ==
    /\ call.op = "new" /\ call.mutable
    /\ kind = "ipv6" /\ Len(buf) = 40
    /\ call.ret.some /\ view = "mutable"

\* C9: after the setter of a field was called with a value v of the field's
\* width, the field's getter returns v, and every byte outside the field's
\* byte range is what it was before the call.
C9_RoundTrip ==
    (call.op = "set" /\ Representable(kind, call.field, call.arg)) =>
        /\ getter(kind, call.field, buf) = call.arg
        /\ Len(buf) = Len(prev)
        /\ \A i \in 0..(Len(buf) - 1) :
               i \notin FieldBytes(kind, call.field) => buf[i + 1] = prev[i + 1]

\* on a little-endian machine an EtherType that is no named constant was set
\* in a buffer whose bytes 12..13 held something else
C9_Witness ==
    /\ call.op = "set" /\ kind = "ethernet" /\ call.field = "ether_type"
    /\ call.arg = 43981
    /\ host = "little"
    /\ buf[13] = 171 /\ buf[14] = 205
    /\ prev[13] = 13 /\ prev[14] = 14

\* the bits of byte i (0-based) of b selected by the divisor and modulus:
\* (byte \div d) % m
Bits(b, i, d, m) == (b[i + 1] \div d) % m

\* C10: setting one of two fields that share a byte, with a value of its
\* width, leaves every bit of the other unchanged: IPv4 version / header
\* length (byte 0), dscp / ecn (byte 1), flags / fragment offset (bytes
\* 6..7), IPv6 version / low nibble of byte 0.
C10_SharedBytes ==
    (call.op = "set" /\ Representable(kind, call.field, call.arg)) =>
        /\ (kind \in {"ipv4", "ipv6"} /\ call.field = "version") =>
               Bits(buf, 0, 1, 16) = Bits(prev, 0, 1, 16)
        /\ (kind = "ipv4" /\ call.field = "header_length") =>
               Bits(buf, 0, 16, 16) = Bits(prev, 0, 16, 16)
        /\ (kind = "ipv4" /\ call.field = "dscp") =>
               Bits(buf, 1, 1, 4) = Bits(prev, 1, 1, 4)
        /\ (kind = "ipv4" /\ call.field = "ecn") =>
               Bits(buf, 1, 4, 64) = Bits(prev, 1, 4, 64)
        /\ (kind = "ipv4" /\ call.field = "flags") =>
               /\ Bits(buf, 6, 1, 32) = Bits(prev, 6, 1, 32)
               /\ buf[8] = prev[8]
        /\ (kind = "ipv4" /\ call.field = "fragment_offset") =>
               Bits(buf, 6, 32, 8) = Bits(prev, 6, 32, 8)

\* the fragment offset was changed in a header whose three flag bits were set
C10_Witness ==
    /\ call.op = "set" /\ kind = "ipv4" /\ call.field = "fragment_offset"
    /\ call.arg = 2730
    /\ Bits(prev, 6, 32, 8) = 7 /\ Bits(buf, 6, 32, 8) = 7
    /\ buf # prev

(***************************************************************************)
(* Properties of the byte accesses.                                        *)
(***************************************************************************)
\* the latest call was a getter or setter
Accessing == call.op \in {"get", "set"}

\* C11: no getter or setter, on a view over a buffer of any length, new or
\* new_unchecked, reads or writes a byte at an index >= len(buffer): an
\* access of n bytes at offset with offset + n > len panics instead.
C11_BoundsEnforced ==
    Accessing => \A i \in touched : i < Len(buf)

\* C12: on a view that the checked new returned, every getter and setter
\* returns without a panic and reads or writes only indices below the
\* minimum header length of its packet type.
C12_InsideHeader ==
    (Accessing /\ ~call.unchecked) =>
        /\ ~call.panic
        /\ \A i \in touched : i >= 0 /\ i < HeaderLen(kind)
C12_Witness ==
    /\ call.op = "get" /\ ~call.unchecked /\ ~call.panic
    /\ kind = "ipv6" /\ call.field = "destination"
    /\ Len(buf) = 40
    /\ touched = 24..39

(***************************************************************************)
(* Properties of the slices of a view and of the views of one buffer.      *)
(***************************************************************************)
\* C13: for a view from the checked new over a buffer of L >= MIN bytes,
\* data() is the whole buffer, header() its bytes 0..MIN-1, payload() its
\* bytes MIN..L-1 (empty when L = MIN), header ++ payload = data, and a
\* write to index i of the mutable payload() changes the buffer byte
\* MIN + i and no other.
C13_Slices ==
    LET M == HeaderLen(kind)
        L == Len(buf)
        header == packet_header(buf, min_len(kind))
        payload == packet_payload(buf, min_len(kind))
    IN
    /\ view # "none" =>
          /\ L >= M
          /\ packet_data(buf) = buf
          /\ header = [i \in 1..M |-> buf[i]]
          /\ payload = [i \in 1..(L - M) |-> buf[M + i]]
          /\ (L = M => payload = <<>>)
          /\ header \o payload = packet_data(buf)
    /\ (call.op = "payload_write" /\ ~call.panic) =>
          /\ Len(buf) = Len(prev)
          /\ \A j \in 1..Len(buf) :
                buf[j] = IF j = M + call.index + 1 THEN call.arg ELSE prev[j]
C13_Witness ==
    /\ call.op = "payload_write" /\ ~call.panic
    /\ kind = "ethernet" /\ view = "mutable"
    /\ call.index = 0 /\ call.arg = 99
    /\ buf[15] = 99 /\ prev[15] # 99

\* C17: the view as_immutable() returns has the length of the buffer, its
\* data are the buffer's bytes as they are now, its getter of the field set
\* last returns the value set, and the call of as_immutable() changes no
\* byte of the buffer.
C17_AsImmutable ==
    /\ [](reader.some =>
            /\ Len(packet_data(reader.data)) = Len(buf)
            /\ packet_data(reader.data) = buf
            /\ (call.op = "set" /\ Representable(kind, call.field, call.arg)) =>
                  getter(kind, call.field, reader.data) = call.arg)
    /\ [][reader' # reader => buf' = buf]_vars
C17_Witness ==
    /\ reader.some
    /\ call.op = "set" /\ kind = "arp" /\ call.field = "operation"
    /\ getter(kind, "operation", reader.data) = 43981
    /\ prev # buf

U16Fields(k) ==
    CASE k = "ethernet" -> {"ether_type"}
      [] k = "arp"      -> {"hardware_type", "protocol_type", "operation"}
      [] k = "ipv4"     -> {"total_length", "identification", "header_checksum"}
      [] k = "ipv6"     -> {"payload_length"}
\* the offset of a field: its first byte
FieldOffset(k, f) == CHOOSE o \in FieldBytes(k, f) : \A j \in FieldBytes(k, f) : o <= j

\* C14: on a little-endian and on a big-endian machine alike, the setter of
\* a 16-bit field at offset o stores v div 256 at byte o and v mod 256 at
\* byte o + 1, and its getter returns 256 * byte[o] + byte[o + 1].
C14_BigEndian ==
    /\ (call.op = "set" /\ call.field \in U16Fields(kind)) =>
          LET o == FieldOffset(kind, call.field) IN
          /\ buf[o + 1] = call.arg \div 256
          /\ buf[o + 2] = call.arg % 256
    /\ Len(buf) >= HeaderLen(kind) =>
          \A f \in U16Fields(kind) :
              LET o == FieldOffset(kind, f) IN
              getter(kind, f, buf) = 256 * buf[o + 1] + buf[o + 2]
C14_Witness ==
    /\ host = "little"
    /\ call.op = "set" /\ kind = "ipv4" /\ call.field = "total_length"
    /\ call.arg = 43981
    /\ buf[3] = 171 /\ buf[4] = 205
    /\ getter(kind, "total_length", buf) = 43981

(***************************************************************************)
(* Properties of the ARP header.                                           *)
(***************************************************************************)
\* the nine ranges of the ARP header
ArpRange(f) ==
    CASE f = "hardware_type"   -> 0..1
      [] f = "protocol_type"   -> 2..3
      [] f = "hardware_length" -> 4..4
      [] f = "protocol_length" -> 5..5
      [] f = "operation"       -> 6..7
      [] f = "sender_mac_addr" -> 8..13
      [] f = "sender_ip_addr"  -> 14..17
      [] f = "target_mac_addr" -> 18..23
      [] f = "target_ip_addr"  -> 24..27
\* the big-endian bytes of a 16-bit value
BE16(v) == <<v \div 256, v % 256>>
\* the 28 header bytes that the values w of the nine fields make
ArpHeaderOf(w) ==
    BE16(w["hardware_type"]) \o BE16(w["protocol_type"])
    \o <<w["hardware_length"], w["protocol_length"]>>
    \o BE16(w["operation"])
    \o w["sender_mac_addr"] \o w["sender_ip_addr"]
    \o w["target_mac_addr"] \o w["target_ip_addr"]

\* C15: the nine ARP setters write the ranges 0-1, 2-3, 4, 5, 6-7, 8-13,
\* 14-17, 18-23, 24-27, which are pairwise disjoint and cover the 28 header
\* bytes; once all nine have been called, in whatever order, the header
\* bytes are those the set values make, whatever the buffer held, and no
\* step changes a byte at index >= 28.
C15_ArpCover ==
    /\ [](/\ \A f \in Fields("arp") : accessed(setter_access("arp", f)) = ArpRange(f)
          /\ \A f, g \in Fields("arp") : f # g => ArpRange(f) \cap ArpRange(g) = {}
          /\ UNION {ArpRange(f) : f \in Fields("arp")} = 0..27
          /\ (DOMAIN written = Fields("arp")) =>
                SubSeq(buf, 1, 28) = ArpHeaderOf(written))
    /\ [][/\ Len(buf') = Len(buf)
          /\ \A j \in 29..Len(buf) : buf'[j] = buf[j]]_vars
C15_Witness ==
    /\ DOMAIN written = Fields("arp")
    /\ call.op = "set" /\ call.field = "hardware_type"
    /\ Len(buf) = 29
    /\ buf = [i \in 1..28 |-> i] \o <<255>>

\* C16: set_ipv4_over_ethernet_values leaves hardware type 1, protocol type
\* 0x0800, hardware length 6 and protocol length 4, changes no byte at index
\* >= 6, and a second call changes nothing.
C16_Ipv4OverEthernet ==
    call.op = "set_ipv4_over_ethernet_values" =>
        /\ ArpPacket_hardware_type(buf) = 1
        /\ ArpPacket_protocol_type(buf) = 2048
        /\ ArpPacket_hardware_length(buf) = 6
        /\ ArpPacket_protocol_length(buf) = 4
        /\ Len(buf) = Len(prev)
        /\ \A j \in 7..Len(buf) : buf[j] = prev[j]
        /\ MutArpPacket_set_ipv4_over_ethernet_values(buf) = buf
C16_Witness ==
    /\ call.op = "set_ipv4_over_ethernet_values"
    /\ SubSeq(prev, 1, 6) = <<1, 2, 3, 4, 5, 6>>
    /\ SubSeq(buf, 1, 6) = <<0, 1, 8, 0, 6, 4>>
    /\ buf[9] = 9

(***************************************************************************)
(* Properties of the MacAddr constructors.                                 *)
(***************************************************************************)
\* C20: try_from_slice returns Ok with the six bytes of the slice when the
\* slice is six bytes long and Err(MacAddrLengthError) for every other
\* length; from_slice returns the six bytes of a six-byte slice and panics
\* for every other length.
C20_FromSlice ==
    /\ call.op = "try_from_slice" =>
          IF Len(buf) = 6
          THEN /\ call.ret.ok
               /\ Len(call.ret.value) = 6
               /\ \A i \in 1..6 : call.ret.value[i] = buf[i]
          ELSE /\ ~call.ret.ok
               /\ call.ret.e = "MacAddrLengthError"
    /\ call.op = "from_slice" =>
          IF Len(buf) = 6
          THEN /\ ~call.panic
               /\ Len(call.ret) = 6
               /\ \A i \in 1..6 : call.ret[i] = buf[i]
          ELSE call.panic
C20_Witness ==
    /\ call.op = "try_from_slice"
    /\ buf = <<5, 6, 7, 8, 9, 10>>
    /\ call.ret.ok
    /\ call.ret.value = <<5, 6, 7, 8, 9, 10>>

(***************************************************************************)
(* Properties of recv calls from several threads.                          *)
(***************************************************************************)
\* C19: with several threads calling recv on frames of their own, in every
\* interleaving, no step writes the configured address or the routes, no
\* two threads are inside recv at once, and every call returns what it
\* returns when run alone on its frame.
C19_NoRace ==
    /\ [][built => (built' /\ mac' = mac /\ routes' = routes)]_vars
    /\ [](/\ Cardinality({t \in 1..MaxThreads : threads[t].pc = "route"}) <= 1
          /\ \A t \in 1..MaxThreads :
                threads[t].pc = "returned" =>
                    threads[t].result =
                        ExpectedResult(threads[t].frame, mac, routes, threads[t].invoked))
C19_Witness ==
    /\ threads[1].pc = "route"
    /\ threads[2].pc = "returned" /\ threads[2].result.ok
    /\ threads[1].frame # threads[2].frame
    /\ Len(routes) = 2

(***************************************************************************)
(* Properties of the order of the routes.                                  *)
(***************************************************************************)
\* the routes whose discriminant is the EtherType of the latest frame
Matching == {j \in 1..Len(routes) : routes[j].ether_type = FrameEtherType}

\* C21: a recv call invokes at most one listener; for an admitted frame it
\* is the listener of the first route, in declaration order, whose
\* discriminant equals the frame's EtherType, also when a later route has
\* the same discriminant, and an error of the call carries that route's
\* variant.
C21_FirstMatch ==
    Returned =>
        /\ Len(invoked) <= 1
        /\ Admitted =>
              IF Matching = {} THEN invoked = <<>>
              ELSE LET j == CHOOSE m \in Matching : \A k \in Matching : m <= k IN
                   /\ Len(invoked) = 1
                   /\ invoked[1].listener = routes[j].listener_name
                   /\ ~result.ok => result.e.tag = routes[j].error_name
C21_Witness ==
    /\ Returned /\ Admitted
    /\ Len(routes) = 2
    /\ Matching = {1, 2}
    /\ Len(invoked) = 1 /\ invoked[1].listener = "a"
    /\ ~result.ok /\ result.e.tag = "AError"

(***************************************************************************)
(* Properties of the IPv4 sub-byte fields.                                 *)
(***************************************************************************)
\* C22: whatever the IPv4 header holds, version = byte0 div 16,
\* header_length = byte0 mod 16, dscp = byte1 div 4, ecn = byte1 mod 4,
\* flags = byte6 div 32, fragment_offset = (256 * byte6 + byte7) mod 8192,
\* dont_fragment is bit 0x40 of byte6 and more_fragments bit 0x20 of byte6;
\* on a buffer of bytes 0b10101010 they are 10, 10, 42, 2, 5, 0x0aaa, false
\* and true.
C22_Ipv4Bits ==
    (kind = "ipv4" /\ Len(buf) >= 20) =>
        /\ Ipv4Packet_version(buf) = buf[1] \div 16
        /\ Ipv4Packet_header_length(buf) = buf[1] % 16
        /\ Ipv4Packet_dscp(buf) = buf[2] \div 4
        /\ Ipv4Packet_ecn(buf) = buf[2] % 4
        /\ Ipv4Packet_flags(buf) = buf[7] \div 32
        /\ Ipv4Packet_fragment_offset(buf) = (256 * buf[7] + buf[8]) % 8192
        /\ Ipv4Packet_dont_fragment(buf) = ((buf[7] \div 64) % 2 = 1)
        /\ Ipv4Packet_more_fragments(buf) = ((buf[7] \div 32) % 2 = 1)
        /\ (\A i \in 1..20 : buf[i] = 170) =>
              /\ Ipv4Packet_version(buf) = 10
              /\ Ipv4Packet_header_length(buf) = 10
              /\ Ipv4Packet_dscp(buf) = 42
              /\ Ipv4Packet_ecn(buf) = 2
              /\ Ipv4Packet_flags(buf) = 5
              /\ Ipv4Packet_fragment_offset(buf) = 2730
              /\ Ipv4Packet_dont_fragment(buf) = FALSE
              /\ Ipv4Packet_more_fragments(buf) = TRUE
C22_Witness ==
    /\ kind = "ipv4" /\ view = "immutable"
    /\ Len(buf) = 20 /\ \A i \in 1..20 : buf[i] = 170
    /\ Ipv4Packet_flags(buf) = 5
    /\ Ipv4Packet_fragment_offset(buf) = 2730

\* the value the getter of field f returns after set_<f>(v): v, less the
\* bits above the field's width
Kept(k, f, v) ==
    IF Representable(k, f, v) THEN v ELSE v % (2 ^ FieldBits(k, f))
\* the bytes b after the setters of the fields fs, each called once with its
\* value in w, taken in one fixed order
RECURSIVE SetAll(_, _, _, _)
SetAll(k, b, w, fs) ==
    IF fs = {} THEN b
    ELSE LET f == CHOOSE g \in fs : TRUE
         IN SetAll(k, setter(k, f, b, w[f]), w, fs \ {f})
SubByteFields == {"version", "header_length", "dscp", "ecn", "flags", "fragment_offset"}
\* the bits of the bytes of an IPv4 sub-byte field that are not the field's
OutsideBits(b, f) ==
    CASE f = "version"         -> b[1] % 16
      [] f = "header_length"   -> b[1] \div 16
      [] f = "dscp"            -> b[2] % 4
      [] f = "ecn"             -> b[2] \div 4
      [] f = "flags"           -> b[7] % 32
      [] f = "fragment_offset" -> b[7] \div 32

\* C24: an IPv4 sub-byte setter called with a value wider than its field
\* returns without a panic, leaves every bit outside the field as it was,
\* and the field's getter returns the value modulo 2^W, W the field width.
C24_Truncated ==
    (/\ call.op = "set" /\ kind = "ipv4" /\ call.field \in SubByteFields
     /\ ~Representable(kind, call.field, call.arg)) =>
        /\ view = "mutable"
        /\ getter(kind, call.field, buf) = call.arg % (2 ^ FieldBits(kind, call.field))
        /\ OutsideBits(buf, call.field) = OutsideBits(prev, call.field)
        /\ Len(buf) = Len(prev)
        /\ \A i \in 1..Len(buf) :
               (i - 1) \notin FieldBytes(kind, call.field) => buf[i] = prev[i]
C24_Witness ==
    /\ call.op = "set" /\ kind = "ipv4" /\ call.field = "dscp"
    /\ call.arg = 255
    /\ prev[2] = 170 /\ buf[2] = 254
    /\ Ipv4Packet_dscp(buf) = 63 /\ Ipv4Packet_ecn(buf) = 2

====
